---- MODULE Spec2Model ----
(***************************************************************************)
(* Model of the Lex Machina A2A agent proxy (lexmachina_agent):            *)
(*   - APIAgentConfiguration.__init__ / build_agent  (credential resolver) *)
(*   - LexMachinaAPIAgent.get_suggested_searches / get_search_description  *)
(*     / process_query                              (query orchestrator)   *)
(*   - LexmachinaAgentExecutor.execute / cancel     (protocol adapter)     *)
(*   - server.app                                   (startup)              *)
(*                                                                         *)
(* Python values: None is the string NoneV, a str is a TLA+ string, a dict *)
(* is a function over its keys ("k" in d  is  "k" \in DOMAIN d), a list is *)
(* a sequence.  An optional object is <<>> (None) or <<obj>>.              *)
(* Task executions are modelled one at a time.                             *)
(***************************************************************************)
EXTENDS Integers, Sequences, FiniteSets, TLC

\* ---------------------------------------------------------------- bounds
MaxSuggestions == 2   \* longest stage-1 result list the upstream returns
MaxExecutions  == 2   \* number of execute() calls in one server lifetime

\* ------------------------------------------------------ python primitives
NoneV == "<None>"

\* bool(v) for an Optional[str]
Truthy(v) == v # NoneV /\ v # ""

\* ------------------------------------------------------------- environment
CredentialKeys == {"API_TOKEN", "CLIENT_ID", "CLIENT_SECRET", "DELEGATION_URL"}

\* os.environ.get(K): unset (None), set to the empty string, or set to a value
EnvValues(k) ==
    {NoneV, ""} \cup
    { CASE k = "API_TOKEN"      -> "tok"
        [] k = "CLIENT_ID"      -> "cid"
        [] k = "CLIENT_SECRET"  -> "csecret"
        [] k = "DELEGATION_URL" -> "https://delegate" }

Environments ==
    { e \in [CredentialKeys -> UNION { EnvValues(k) : k \in CredentialKeys }] :
        \A k \in CredentialKeys : e[k] \in EnvValues(k) }

DefaultApiBaseUrl == "https://law-api-poc.stage.lexmachina.com"

AllFieldNames == <<"API_TOKEN", "CLIENT_ID", "CLIENT_SECRET", "DELEGATION_URL">>

\* ------------------------------------------- APIAgentConfiguration.__init__
NoConfig == [api_base_url |-> NoneV, token |-> NoneV, client_id |-> NoneV,
             client_secret |-> NoneV, delegation_url |-> NoneV]

ConfigOf(e) == [api_base_url   |-> DefaultApiBaseUrl,
                token          |-> e["API_TOKEN"],
                client_id      |-> e["CLIENT_ID"],
                client_secret  |-> e["CLIENT_SECRET"],
                delegation_url |-> e["DELEGATION_URL"]]

\* A variant that tests the values for truthiness instead of "is None".
APIAgentConfiguration_truthy(e) ==
    IF \A k \in CredentialKeys : ~Truthy(e[k])
    THEN [raised |-> "MissingConfigurationError", fields |-> AllFieldNames,
          config |-> NoConfig, http |-> <<>>]
    ELSE IF Truthy(e["CLIENT_ID"]) /\ ~Truthy(e["CLIENT_SECRET"])
    THEN [raised |-> "RequiredConfigurationError", fields |-> <<"CLIENT_SECRET">>,
          config |-> NoConfig, http |-> <<>>]
    ELSE IF Truthy(e["CLIENT_SECRET"]) /\ ~Truthy(e["CLIENT_ID"])
    THEN [raised |-> "RequiredConfigurationError", fields |-> <<"CLIENT_ID">>,
          config |-> NoConfig, http |-> <<>>]
    ELSE [raised |-> NoneV, fields |-> <<>>, config |-> ConfigOf(e), http |-> <<>>]

\* Result of constructing APIAgentConfiguration from environment e: the
\* exception raised (NoneV if none), the field names its message lists, and
\* the attributes set on success, and the HTTP requests issued (the
\* constructor only reads os.environ, so there are none).
APIAgentConfiguration(e) ==
    IF \A k \in CredentialKeys : e[k] = NoneV
    THEN [raised |-> "MissingConfigurationError", fields |-> AllFieldNames,
          config |-> NoConfig, http |-> <<>>]
    ELSE IF e["CLIENT_ID"] # NoneV /\ e["CLIENT_SECRET"] = NoneV
    THEN [raised |-> "RequiredConfigurationError", fields |-> <<"CLIENT_SECRET">>,
          config |-> NoConfig, http |-> <<>>]
    ELSE IF e["CLIENT_SECRET"] # NoneV /\ e["CLIENT_ID"] = NoneV
    THEN [raised |-> "RequiredConfigurationError", fields |-> <<"CLIENT_ID">>,
          config |-> NoConfig, http |-> <<>>]
    ELSE [raised |-> NoneV, fields |-> <<>>, config |-> ConfigOf(e), http |-> <<>>]

\* ------------------------------------------------ LexMachinaAPIAgent.__init__
\* The agent object: its headers and its httpx.AsyncClient (open on creation).
LexMachinaAPIAgent(api_base_url, token) ==
    [api_base_url  |-> api_base_url,
     Authorization |-> <<"Bearer", token>>,
     Accept        |-> "application/json",
     is_closed     |-> FALSE]

\* ----------------------------------------- APIAgentConfiguration.build_agent
\* Answers of the token endpoint to POST {api_base_url}/api/token
TokenResponses ==
    { [status |-> "http_error", access_token |-> NoneV],
      [status |-> "ok",         access_token |-> NoneV],
      [status |-> "ok",         access_token |-> ""],
      [status |-> "ok",         access_token |-> "fetched_token"] }

TokenRequest(c) == <<"POST", "/api/token", c.client_id, c.client_secret>>

\* build_agent on configuration c when the token endpoint would answer r:
\* the exception raised (NoneV if none), the agent returned (<<>> if none)
\* and the HTTP requests issued.
build_agent(c, r) ==
    IF Truthy(c.token)
    THEN [raised |-> NoneV,
          agent  |-> <<LexMachinaAPIAgent(c.api_base_url, c.token)>>,
          http   |-> <<>>]
    ELSE IF Truthy(c.client_id) /\ Truthy(c.client_secret)
    THEN IF r.status = "http_error"
         THEN [raised |-> "HTTPError", agent |-> <<>>, http |-> <<TokenRequest(c)>>]
         ELSE IF ~Truthy(r.access_token)
         THEN [raised |-> "ConfigurationError", agent |-> <<>>,
               http |-> <<TokenRequest(c)>>]
         ELSE [raised |-> NoneV,
               agent  |-> <<LexMachinaAPIAgent(c.api_base_url, r.access_token)>>,
               http   |-> <<TokenRequest(c)>>]
    ELSE IF Truthy(c.delegation_url)
    THEN [raised |-> "NotImplementedError", agent |-> <<>>, http |-> <<>>]
    ELSE [raised |-> "ConfigurationError", agent |-> <<>>, http |-> <<>>]

\* --------------------------------------------------------------- upstream
\* Suggestion records the upstream can return; the last one violates the
\* upstream contract by carrying no description_url.
SuggestionRecords ==
    { [name |-> "A", description_url |-> "/desc/1"],
      [name |-> "B", description_url |-> "/desc/2"],
      [name |-> "C"] }

SuggestionLists ==
    UNION { [1..n -> SuggestionRecords] : n \in 0..MaxSuggestions }

\* A dict that has not been assigned yet
NoDict == [unset |-> NoneV]

\* Answers of the upstream to GET /search/ai_suggested
SuggestAnswers ==
    { [kind |-> "status_error",    body |-> NoDict],
      [kind |-> "transport_error", body |-> NoDict],
      [kind |-> "json",            body |-> [total |-> "0"]],
      [kind |-> "json",
       body |-> [error  |-> "quota exceeded",
                 result |-> <<[name |-> "A", description_url |-> "/desc/1"]>>]] }
    \cup { [kind |-> "json", body |-> [result |-> l]] : l \in SuggestionLists }

\* Answers of the upstream to GET {description_url}
DescriptionAnswers == {"ok", "status_error", "transport_error"}

\* JSON payload the upstream serves at a description url
Description(u) == [url |-> u, text |-> "Description for " \o u]

\* str(e) of the httpx.HTTPStatusError raised for a request to path u
StatusErrorText(u) == "Client error '404 Not Found' for url '" \o u \o "'"

\* -------------------------------- LexMachinaAPIAgent.get_suggested_searches
get_suggested_searches(a) ==
    CASE a.kind = "json"            -> [raised |-> NoneV, value |-> a.body]
      [] a.kind = "status_error"    ->
            [raised |-> NoneV,
             value  |-> [error |-> StatusErrorText("/search/ai_suggested")]]
      [] a.kind = "transport_error" -> [raised |-> "TransportError", value |-> NoDict]

\* -------------------------------- LexMachinaAPIAgent.get_search_description
\* A variant that lets the HTTP status error escape.
get_search_description_reraise(u, a) ==
    CASE a = "ok"              -> [raised |-> NoneV, value |-> Description(u)]
      [] a = "status_error"    -> [raised |-> "HTTPStatusError", value |-> NoDict]
      [] a = "transport_error" -> [raised |-> "TransportError", value |-> NoDict]

get_search_description(u, a) ==
    CASE a = "ok"              -> [raised |-> NoneV, value |-> Description(u)]
      [] a = "status_error"    -> [raised |-> NoneV,
                                   value  |-> [error |-> StatusErrorText(u)]]
      [] a = "transport_error" -> [raised |-> "TransportError", value |-> NoDict]

\* ------------------------------------- LexMachinaAPIAgent.process_query
\* A variant of the gate that lets an empty result list through.
gate_ignores_empty(resp) ==
    "error" \in DOMAIN resp \/ "result" \notin DOMAIN resp

\* "error" in suggestions_response or not suggestions_response.get("result")
gate(resp) ==
    \/ "error" \in DOMAIN resp
    \/ "result" \notin DOMAIN resp
    \/ resp.result = <<>>

gate_failure(resp) ==
    [error |-> "Failed to get initial suggestions.", details |-> resp]

\* suggestion["description_url"] raises KeyError when the key is missing
has_description_url(s) == "description_url" \in DOMAIN s

\* A variant that returns the results in order of completion.
gather_as_completed(ts, order) ==
    [i \in 1..Len(ts) |-> ts[order[i]].value]

\* asyncio.gather(*enrichment_tasks) once every task has returned: the list
\* of results in the order of the awaitables, whatever the completion order.
gather(ts, order) ==
    [i \in 1..Len(ts) |-> ts[i].value]

\* suggestion["enriched_description"] = description_data
set_enriched(s, d) ==
    [k \in DOMAIN s \cup {"enriched_description"} |->
        IF k = "enriched_description" THEN d ELSE s[k]]

\* A variant whose loop stops one element early.
merge_stops_early(suggestions, descriptions) ==
    [i \in 1..Len(suggestions) |->
        IF i < Len(descriptions) THEN set_enriched(suggestions[i], descriptions[i])
        ELSE suggestions[i]]

\* for suggestion, description_data in zip(suggestions, descriptions): ...
\* (the list is mutated in place; zip stops at the shorter argument)
merge(suggestions, descriptions) ==
    [i \in 1..Len(suggestions) |->
        IF i <= Len(descriptions) THEN set_enriched(suggestions[i], descriptions[i])
        ELSE suggestions[i]]

\* ------------------------------------------------------------------ state
VARIABLES
    env,                  \* os.environ of the process
    server,               \* "init" | "serving" | "startup_failed" | "exited"
    config,               \* the APIAgentConfiguration held by the executor
    startup_error,        \* exception that ended startup, with its field names
    executions,           \* number of execute() calls so far
    pc,                   \* position of the current execute() call
    context,              \* RequestContext of the current call
    api,                  \* local 'api' of execute(): <<>> or <<agent>>
    clients,              \* every LexMachinaAPIAgent constructed so far
    token_response,       \* what the token endpoint answered in this call
    http,                 \* HTTP requests issued by the current call, in order
    stage1,               \* stage-1 response as received (before mutation)
    suggestions_response, \* local of process_query (mutated in place)
    tasks,                \* the description fetches handed to asyncio.gather
    completed,            \* indices of the fetches in order of completion
    orphans,              \* fetches still running after their process_query exited
    results,              \* return value of process_query
    raised,               \* exception that ended the current execute() call
    events,               \* the EventQueue of the current call
    cancel_raised         \* exception raised by the last cancel() call

vars == <<env, server, config, startup_error, executions, pc, context, api,
          clients, token_response, http, stage1, suggestions_response, tasks,
          completed, orphans, results, raised, events, cancel_raised>>

query_vars == <<stage1, suggestions_response, tasks, completed, results>>
static_vars == <<env, server, config, startup_error, cancel_raised>>

\* RequestContext: each required attribute is None or supplied
Contexts ==
    [task_id    : {NoneV, "task123"},
     context_id : {NoneV, "ctx456"},
     message    : {NoneV, "patent cases"}]

NoTokenResponse == [status |-> "not requested", access_token |-> NoneV]

Init ==
    /\ env \in Environments
    /\ server = "init"
    /\ config = NoConfig
    /\ startup_error = [raised |-> NoneV, fields |-> <<>>]
    /\ executions = 0
    /\ pc = "idle"
    /\ context = [task_id |-> NoneV, context_id |-> NoneV, message |-> NoneV]
    /\ api = <<>>
    /\ clients = <<>>
    /\ token_response = NoTokenResponse
    /\ http = <<>>
    /\ stage1 = NoDict
    /\ suggestions_response = NoDict
    /\ tasks = <<>>
    /\ completed = <<>>
    /\ orphans = 0
    /\ results = NoDict
    /\ raised = NoneV
    /\ events = <<>>
    /\ cancel_raised = NoneV

\* --------------------------------------------------------------- startup
\* server.app(): builds the configuration, then the request handler around
\* LexmachinaAgentExecutor(config).  An exception of the constructor leaves
\* app() and no application is returned.
app ==
    /\ server = "init"
    /\ LET r == APIAgentConfiguration(env) IN
         /\ startup_error' = [raised |-> r.raised, fields |-> r.fields]
         /\ config' = r.config
         /\ http' = r.http
         /\ server' = IF r.raised = NoneV THEN "serving" ELSE "startup_failed"
    /\ UNCHANGED <<env, executions, pc, context, api, clients, token_response,
                   orphans, raised, events, cancel_raised>>
    /\ UNCHANGED query_vars

\* __main__.main(): LexmachinaAgentExecutor() is called without its required
\* 'config' argument; the TypeError is caught, logged, and the process exits.
main ==
    /\ server = "init"
    /\ startup_error' = [raised |-> "TypeError", fields |-> <<>>]
    /\ server' = "exited"
    /\ UNCHANGED <<env, config, executions, pc, context, api, clients,
                   token_response, http, orphans, raised, events, cancel_raised>>
    /\ UNCHANGED query_vars

\* ----------------------------------------- LexmachinaAgentExecutor.execute
ExecutionOver == pc \in {"idle", "completed", "raised"}

MissingField(ctx) ==
    ctx.task_id = NoneV \/ ctx.context_id = NoneV \/ ctx.message = NoneV

\* execute(), first statement:  api = self.config.build_agent()
execute_build ==
    /\ server = "serving"
    /\ ExecutionOver
    /\ executions < MaxExecutions
    /\ \E ctx \in Contexts, r \in TokenResponses :
         LET b == build_agent(config, r) IN
           /\ context' = ctx
           /\ api' = b.agent
           /\ clients' = clients \o b.agent
           /\ http' = b.http
           /\ token_response' = IF b.http = <<>> THEN NoTokenResponse ELSE r
           /\ raised' = b.raised
           /\ pc' = IF b.raised = NoneV THEN "built" ELSE "raised"
    /\ executions' = executions + 1
    /\ stage1' = NoDict
    /\ suggestions_response' = NoDict
    /\ tasks' = <<>>
    /\ completed' = <<>>
    /\ results' = NoDict
    /\ events' = <<>>
    /\ UNCHANGED orphans
    /\ UNCHANGED static_vars

\* execute(): the check of task_id / context_id / message, then
\* get_user_input() and the call of process_query up to its first await
\* (the GET of get_suggested_searches).
execute_check ==
    /\ pc = "built"
    /\ IF MissingField(context)
       THEN /\ raised' = "InvalidParamsError"
            /\ pc' = "raised"
            /\ UNCHANGED http
       ELSE /\ http' = Append(http, <<"GET", "/search/ai_suggested", context.message>>)
            /\ pc' = "stage1"
            /\ UNCHANGED raised
    /\ UNCHANGED <<executions, context, api, clients, token_response, orphans, events>>
    /\ UNCHANGED query_vars
    /\ UNCHANGED static_vars

\* process_query: the stage-1 answer arrives; get_suggested_searches returns
\* or raises, then the gate.
stage1_response ==
    /\ pc = "stage1"
    /\ \E a \in SuggestAnswers :
         LET s == get_suggested_searches(a) IN
           IF s.raised # NoneV
           THEN /\ raised' = s.raised
                /\ pc' = "raised"
                /\ UNCHANGED <<stage1, suggestions_response, results>>
           ELSE /\ stage1' = s.value
                /\ suggestions_response' = s.value
                /\ UNCHANGED raised
                /\ IF gate(s.value)
                   THEN /\ results' = gate_failure(s.value)
                        /\ pc' = "returned"
                   ELSE /\ pc' = "enrich"
                        /\ UNCHANGED results
    /\ UNCHANGED <<executions, context, api, clients, token_response, http,
                   tasks, completed, orphans, events>>
    /\ UNCHANGED static_vars

\* process_query: the loop creating one get_search_description coroutine per
\* suggestion, then asyncio.gather, which wraps each coroutine in a task and
\* schedules it; 'await' then suspends process_query.  No coroutine has run
\* yet, so no description GET has been issued at this point.
fan_out ==
    /\ pc = "enrich"
    /\ LET suggestions == suggestions_response.result IN
         IF \E i \in 1..Len(suggestions) : ~has_description_url(suggestions[i])
         THEN /\ raised' = "KeyError"
              /\ pc' = "raised"
              /\ UNCHANGED tasks
         ELSE /\ tasks' = [i \in 1..Len(suggestions) |->
                             [url    |-> suggestions[i].description_url,
                              state  |-> "created",
                              answer |-> "none",
                              value  |-> NoDict]]
              /\ pc' = "gather"
              /\ UNCHANGED raised
    /\ UNCHANGED <<executions, context, api, clients, token_response, http, stage1,
                   suggestions_response, completed, orphans, results, events>>
    /\ UNCHANGED static_vars

\* First step of fetch task i, run by the event loop: get_search_description
\* up to 'await self._client.get(description_url)', which issues the GET.
\* The loop runs the first steps in the order the tasks were scheduled.
fetch_start(i) ==
    /\ pc = "gather"
    /\ tasks[i].state = "created"
    /\ \A j \in 1..(i - 1) : tasks[j].state # "created"
    /\ tasks' = [tasks EXCEPT ![i].state = "pending"]
    /\ http' = Append(http, <<"GET", tasks[i].url>>)
    /\ UNCHANGED <<executions, pc, context, api, clients, token_response, stage1,
                   suggestions_response, completed, orphans, results, raised, events>>
    /\ UNCHANGED static_vars

\* One description fetch finishes: get_search_description returns or raises.
\* (A transport that answers without suspending lets a fetch finish before
\* the first step of a later task has run.)
fetch_complete(i) ==
    /\ pc = "gather"
    /\ tasks[i].state = "pending"
    /\ \E a \in DescriptionAnswers :
         LET d == get_search_description(tasks[i].url, a) IN
           tasks' = [tasks EXCEPT ![i] =
                       [url    |-> tasks[i].url,
                        state  |-> IF d.raised = NoneV THEN "done" ELSE "raised",
                        answer |-> a,
                        value  |-> d.value]]
    /\ completed' = Append(completed, i)
    /\ UNCHANGED <<executions, pc, context, api, clients, token_response, http,
                   stage1, suggestions_response, orphans, results, raised, events>>
    /\ UNCHANGED static_vars

\* process_query: gather delivers the list of results once every fetch has
\* returned; the merge loop; return suggestions_response.
gather_return ==
    /\ pc = "gather"
    /\ \A i \in 1..Len(tasks) : tasks[i].state = "done"
    /\ LET descriptions == gather(tasks, completed)
           merged == merge(suggestions_response.result, descriptions)
           final == [suggestions_response EXCEPT !.result = merged]
       IN /\ suggestions_response' = final
          /\ results' = final
    /\ pc' = "returned"
    /\ UNCHANGED <<executions, context, api, clients, token_response, http,
                   stage1, tasks, completed, orphans, raised, events>>
    /\ UNCHANGED static_vars

\* process_query: gather was called without return_exceptions, so the first
\* exception of a fetch is raised in process_query at once; the fetches that
\* have not finished are not cancelled and keep running.  The wake-up of
\* process_query is queued behind the first steps of all the tasks.
gather_raise ==
    /\ pc = "gather"
    /\ \E i \in 1..Len(tasks) : tasks[i].state = "raised"
    /\ \A i \in 1..Len(tasks) : tasks[i].state # "created"
    /\ raised' = "TransportError"
    /\ pc' = "raised"
    /\ orphans' = orphans + Cardinality({i \in 1..Len(tasks) : tasks[i].state = "pending"})
    /\ tasks' = [i \in 1..Len(tasks) |->
                   IF tasks[i].state = "pending"
                   THEN [tasks[i] EXCEPT !.state = "orphaned"]
                   ELSE tasks[i]]
    /\ UNCHANGED <<executions, context, api, clients, token_response, http,
                   stage1, suggestions_response, completed, results, events>>
    /\ UNCHANGED static_vars

\* A fetch left behind by gather_raise finishes; nobody reads its outcome.
orphan_finish ==
    /\ orphans > 0
    /\ orphans' = orphans - 1
    /\ UNCHANGED <<executions, pc, context, api, clients, token_response, http,
                   raised, events>>
    /\ UNCHANGED query_vars
    /\ UNCHANGED static_vars

\* str(results), the rendering placed in the TextPart
str(d) == <<"str", d>>

\* execute(): wrap the result in a text artifact, enqueue the completed task.
execute_enqueue ==
    /\ pc = "returned"
    /\ events' = Append(events,
                   [kind       |-> "completed_task",
                    task_id    |-> context.task_id,
                    context_id |-> context.context_id,
                    artifact   |-> [name |-> "suggestion_" \o context.task_id,
                                    text |-> str(results)],
                    history    |-> <<context.message>>])
    /\ pc' = "completed"
    /\ UNCHANGED <<executions, context, api, clients, token_response, http,
                   orphans, raised>>
    /\ UNCHANGED query_vars
    /\ UNCHANGED static_vars

\* LexmachinaAgentExecutor.cancel: always raises; the running call is untouched.
cancel ==
    /\ server = "serving"
    /\ cancel_raised = NoneV
    /\ cancel_raised' = "UnsupportedOperationError"
    /\ UNCHANGED <<env, server, config, startup_error, executions, pc, context,
                   api, clients, token_response, http, orphans, raised, events>>
    /\ UNCHANGED query_vars

Next ==
    \/ app
    \/ main
    \/ execute_build
    \/ execute_check
    \/ stage1_response
    \/ fan_out
    \/ \E i \in 1..Len(tasks) : fetch_start(i)
    \/ \E i \in 1..Len(tasks) : fetch_complete(i)
    \/ gather_return
    \/ gather_raise
    \/ orphan_finish
    \/ execute_enqueue
    \/ cancel

Spec == Init /\ [][Next]_vars

TypeOK ==
    /\ server \in {"init", "serving", "startup_failed", "exited"}
    /\ pc \in {"idle", "built", "stage1", "enrich", "gather", "returned",
               "completed", "raised"}
    /\ executions \in 0..MaxExecutions
    /\ Len(clients) <= executions
    /\ orphans \in 0..(MaxExecutions * MaxSuggestions)

\* ------------------------------------------------------------ properties
ProcessQueryReturned == pc \in {"returned", "completed"}

\* Stage 1 delivered a response without 'error' and with a non-empty 'result'
StageOneOk ==
    /\ "error" \notin DOMAIN stage1
    /\ "result" \in DOMAIN stage1
    /\ stage1.result # <<>>

\* Stage 1 delivered a response with 'error', or without 'result', or with
\* an empty 'result'
StageOneFailed ==
    /\ stage1 # NoDict
    /\ \/ "error" \in DOMAIN stage1
       \/ "result" \notin DOMAIN stage1
       \/ stage1.result = <<>>

AllHaveUrl ==
    \A i \in 1..Len(stage1.result) : "description_url" \in DOMAIN stage1.result[i]

IsDescriptionFetch(req) == req[1] = "GET" /\ req[2] # "/search/ai_suggested"

\* What the upstream answer a to the fetch of url u amounts to
Outcome(u, a) ==
    IF a = "ok" THEN Description(u) ELSE [error |-> StatusErrorText(u)]

\* C1: when stage 1 succeeds with N suggestions and every description fetch
\* returns a value, process_query returns a 'result' list of exactly N
\* suggestions, in the original order with their original fields, each
\* carrying 'enriched_description'; and only a fetch that raised can keep
\* process_query from returning.
C1_NoSuggestionLost ==
    /\ (ProcessQueryReturned /\ StageOneOk) =>
          /\ "result" \in DOMAIN results
          /\ "error" \notin DOMAIN results
          /\ Len(results.result) = Len(stage1.result)
          /\ \A i \in 1..Len(stage1.result) :
                /\ "enriched_description" \in DOMAIN results.result[i]
                /\ \A k \in DOMAIN stage1.result[i] :
                      results.result[i][k] = stage1.result[i][k]
    /\ (pc = "raised" /\ StageOneOk /\ AllHaveUrl) =>
          \E i \in 1..Len(tasks) : tasks[i].state = "raised"

C1_Witness ==
    /\ ProcessQueryReturned
    /\ StageOneOk
    /\ Len(stage1.result) >= 2
    /\ stage1.result[1] # stage1.result[2]
    /\ "result" \in DOMAIN results
    /\ \A i \in 1..Len(results.result) :
          "enriched_description" \in DOMAIN results.result[i]

\* C2: whenever the stage-1 response has an 'error' key, or no 'result', or
\* an empty 'result', process_query has returned
\* {error: "Failed to get initial suggestions.", details: <that response>}
\* and no description fetch was created or issued.
C2_StageGate ==
    StageOneFailed =>
        /\ ProcessQueryReturned
        /\ results = [error   |-> "Failed to get initial suggestions.",
                      details |-> stage1]
        /\ tasks = <<>>
        /\ \A j \in 1..Len(http) : ~IsDescriptionFetch(http[j])

C2_Witness ==
    /\ stage1 = [result |-> <<>>]
    /\ ProcessQueryReturned
    /\ "error" \in DOMAIN results
    /\ results.details = stage1

\* C3: in the returned list, suggestion i carries the outcome of the fetch
\* issued for its own description_url, whatever the order of completion.
C3_Positional ==
    (ProcessQueryReturned /\ StageOneOk) =>
        /\ Len(tasks) = Len(stage1.result)
        /\ \A i \in 1..Len(stage1.result) :
              /\ tasks[i].url = stage1.result[i].description_url
              /\ results.result[i].enriched_description =
                    Outcome(stage1.result[i].description_url, tasks[i].answer)

C3_Witness ==
    /\ ProcessQueryReturned
    /\ StageOneOk
    /\ completed = <<2, 1>>
    /\ tasks[1].url # tasks[2].url
    /\ results.result[1].enriched_description = tasks[1].value
    /\ results.result[1].enriched_description # results.result[2].enriched_description

\* C4: a description fetch answered with an HTTP status error returns
\* {error: message} and never raises; stage 2 aborts only on a fetch that met
\* another kind of exception; and when process_query returns after stage 2
\* it returns the success shape, where a failed suggestion carries
\* {error: message} and every other one its real description.
C4_FailureIsolation ==
    /\ \A i \in 1..Len(tasks) :
          tasks[i].answer = "status_error" =>
              /\ tasks[i].state = "done"
              /\ tasks[i].value = [error |-> StatusErrorText(tasks[i].url)]
    /\ (pc = "raised" /\ tasks # <<>>) =>
          \E i \in 1..Len(tasks) : tasks[i].answer = "transport_error"
    /\ (ProcessQueryReturned /\ tasks # <<>>) =>
          /\ "result" \in DOMAIN results
          /\ "error" \notin DOMAIN results
          /\ \A i \in 1..Len(tasks) :
                results.result[i].enriched_description =
                    IF tasks[i].answer = "status_error"
                    THEN [error |-> StatusErrorText(tasks[i].url)]
                    ELSE Description(tasks[i].url)

C4_Witness ==
    /\ ProcessQueryReturned
    /\ "result" \in DOMAIN results
    /\ \E i, j \in 1..Len(tasks) :
          /\ tasks[i].answer = "status_error"
          /\ tasks[j].answer = "ok"
          /\ "error" \in DOMAIN results.result[i].enriched_description
          /\ results.result[j].enriched_description = Description(tasks[j].url)

Absent(k) == env[k] = NoneV

\* C5: startup through app() fails with MissingConfigurationError naming the
\* four fields exactly when all four variables are unset, with
\* RequiredConfigurationError naming the unset one exactly when one of
\* CLIENT_ID / CLIENT_SECRET is set and the other is not, and succeeds
\* otherwise; no HTTP request is issued by the validation.
C5_ConfigValidation ==
    server \in {"serving", "startup_failed"} =>
        /\ startup_error =
              IF \A k \in CredentialKeys : Absent(k)
              THEN [raised |-> "MissingConfigurationError", fields |-> AllFieldNames]
              ELSE IF Absent("CLIENT_ID") # Absent("CLIENT_SECRET")
              THEN [raised |-> "RequiredConfigurationError",
                    fields |-> <<IF Absent("CLIENT_ID") THEN "CLIENT_ID"
                                 ELSE "CLIENT_SECRET">>]
              ELSE [raised |-> NoneV, fields |-> <<>>]
        /\ (server = "serving") <=> (startup_error.raised = NoneV)
        /\ (executions = 0 => http = <<>>)

C5_Witness ==
    /\ server = "startup_failed"
    /\ startup_error = [raised |-> "RequiredConfigurationError",
                        fields |-> <<"CLIENT_SECRET">>]
    /\ ~Absent("API_TOKEN")
    /\ ~Absent("DELEGATION_URL")
    /\ ~Absent("CLIENT_ID")

Posts == Cardinality({ j \in 1..Len(http) : http[j][1] = "POST" })

\* C6: for a validated configuration, a present token gives a client with
\* 'Bearer <token>' and no token exchange; otherwise a present client id and
\* secret give exactly one token-exchange POST and any client built carries
\* 'Bearer <returned access_token>'; otherwise the delegation path is taken,
\* and it is taken only then and never produces a client.
C6_CredentialPriority ==
    (server = "serving" /\ executions > 0) =>
        /\ IF config.token # NoneV
           THEN /\ api # <<>>
                /\ api[1].Authorization = <<"Bearer", config.token>>
                /\ Posts = 0
           ELSE IF config.client_id # NoneV /\ config.client_secret # NoneV
           THEN /\ Posts = 1
                /\ api # <<>> =>
                      api[1].Authorization = <<"Bearer", token_response.access_token>>
           ELSE /\ api = <<>>
                /\ Posts = 0
                /\ pc = "raised"
        /\ raised = "NotImplementedError" =>
              /\ config.token = NoneV
              /\ config.client_id = NoneV \/ config.client_secret = NoneV

ConfigurationFailures ==
    {"MissingConfigurationError", "RequiredConfigurationError",
     "ConfigurationError", "NotImplementedError"}

\* C7: once the server accepts tasks, no execute() call ends in a
\* configuration failure (they are all raised at startup).
C7_ConfigFailuresOnlyAtStartup ==
    server = "serving" => raised \notin ConfigurationFailures

\* C8: when execute() raises the invalid-parameters error for a context that
\* lacks task id, context id or message, no processing has begun: no client
\* has been built, no HTTP request issued and no event enqueued.
C8_InvalidParamsBeforeProcessing ==
    raised = "InvalidParamsError" =>
        /\ MissingField(context)
        /\ api = <<>>
        /\ http = <<>>
        /\ events = <<>>

\* C9: at most one client is ever constructed for the executor, every query
\* reusing it; a client other than that single shared one has been released.
C9_SingleSharedClient ==
    /\ Len(clients) <= 1
    /\ \A i \in 1..Len(clients) : clients[i].is_closed \/ Len(clients) = 1

\* C10: all N fetches have been launched before process_query waits on them
\* (the N tasks exist when it suspends on the join, and it leaves the join
\* only after each has issued its GET), and no fetch is still running once
\* process_query has returned or raised.
C10_StructuredFanOut ==
    /\ pc = "gather" => Len(tasks) = Len(suggestions_response.result)
    /\ (pc \in {"returned", "completed", "raised"} /\ tasks # <<>>) =>
          /\ \A i \in 1..Len(tasks) : tasks[i].state # "created"
          /\ Cardinality({ j \in 1..Len(http) : IsDescriptionFetch(http[j]) }) = Len(tasks)
    /\ pc \in {"returned", "completed", "raised"} =>
          /\ orphans = 0
          /\ \A i \in 1..Len(tasks) : tasks[i].state \in {"done", "raised"}

====
